---- MODULE Spec2Model ----
(***************************************************************************)
(* Yad2 car scraper: the listing cache ("ledger") kept by Yad2Scraper      *)
(* (scraper.py), the S3 store (s3_storage.py) and the run coordinators     *)
(* LambdaCarScraper.process_filters / lambda_handler (lambda_handler.py)   *)
(* and CarScraperApp.scrape_single_run (main.py).                          *)
(***************************************************************************)
EXTENDS Integers, Sequences, FiniteSets, TLC

\* ---------------------------------------------------------------- bounds
\* range of the clock behind datetime.now(): it ticks at every
\* find_new_listings call and at the start and at the end of every run
MaxTime == 3
\* longest list scrape_listings returns
MaxFetch == 2
\* iterations of the loop of run_scheduler that are followed
MaxTicks == 3
\* I/O failures (S3 or local disk) in one behaviour
MaxFaults == 1

\* ------------------------------------------------------------- data model
ListingIds == {"a", "b"}
Prices == {"p1", "p2"}

\* scraper.py CarListing as built by _parse_listing_element: first_seen is
\* never set by the scraper (it stays None)
CarListing == [id : ListingIds, price : Prices]

FetchResults == UNION {[1..n -> CarListing] : n \in 0..MaxFetch}

\* the filter lists a deployment can be configured with
FilterLists == {<<>>, <<"A">>, <<"A", "B">>}

\* os.environ as read by the storage code: AWS_LAMBDA_FUNCTION_NAME set or
\* unset, USE_S3_STORAGE in ('true', '1', 'yes') or not, S3_BUCKET_NAME set
\* or unset.  Combinations that the code cannot tell apart are left out.
Environments ==
    {[AWS_LAMBDA_FUNCTION_NAME |-> FALSE, USE_S3_STORAGE |-> FALSE, S3_BUCKET_NAME |-> FALSE],
     [AWS_LAMBDA_FUNCTION_NAME |-> FALSE, USE_S3_STORAGE |-> TRUE, S3_BUCKET_NAME |-> TRUE],
     [AWS_LAMBDA_FUNCTION_NAME |-> FALSE, USE_S3_STORAGE |-> TRUE, S3_BUCKET_NAME |-> FALSE],
     [AWS_LAMBDA_FUNCTION_NAME |-> TRUE, USE_S3_STORAGE |-> FALSE, S3_BUCKET_NAME |-> TRUE],
     [AWS_LAMBDA_FUNCTION_NAME |-> TRUE, USE_S3_STORAGE |-> FALSE, S3_BUCKET_NAME |-> FALSE]}

\* outcomes of the I/O calls made by one find_new_listings call
IoFields == {"s3_client", "get_object", "put_object", "local_read", "local_write"}

IoOutcomes == [IoFields -> {"ok", "error"}]

IoAllOk == [f \in IoFields |-> "ok"]

Faults(io) == Cardinality({f \in IoFields : io[f] # "ok"})

\* what the bytes of a ledger blob can be: the JSON object save_cached_listings
\* writes ("ledger"), bytes that are not JSON ("corrupt"), JSON that is not an
\* object such as [] or null ("not_object"), an object without the key
\* listing_ids ("no_ids_key"), an object whose listing_ids is not iterable
\* such as a number or null ("ids_scalar"), an object whose listing_ids is
\* a string ("ids_string": listing_ids then holds its characters)
BlobShapes == {"ledger", "corrupt", "not_object", "no_ids_key", "ids_scalar", "ids_string"}

\* a JSON blob that does not exist
NoFile == [exists |-> FALSE, json |-> "ledger", listing_ids |-> {}, last_updated |-> 0,
           listings |-> <<>>]

\* the blobs a ledger read can meet: none, a ledger of some ids, or a blob of
\* another shape (its listing_ids matter for "ids_string" only)
Blobs ==
    {NoFile}
        \cup {[NoFile EXCEPT !.exists = TRUE, !.listing_ids = ids] : ids \in SUBSET ListingIds}
        \cup {[NoFile EXCEPT !.exists = TRUE, !.json = sh] :
                 sh \in {"corrupt", "not_object", "no_ids_key", "ids_scalar"}}
        \cup {[NoFile EXCEPT !.exists = TRUE, !.json = "ids_string", !.listing_ids = {"a"}]}

Ids(listings) == {listings[k].id : k \in 1..Len(listings)}

VARIABLES
    env,        \* os.environ of the process
    s3Obj,      \* s3://<bucket>/yad2-scraper/listings_cache.json
    localFile,  \* data/listings_cache.json
    now,        \* clock: datetime.now(), one tick per operation
    faults,     \* I/O failures so far
    call,       \* the most recent find_new_listings call: argument and result
    app,        \* the coordinator of the most recent run: "lambda", "cli" or "none"
    pc,         \* where the coordinator is: "idle", "filter", "summary", "cli_filter"
    filters,    \* self.filters of the running coordinator
    telegram,   \* self.telegram is not None (LambdaCarScraper.__init__)
    i,          \* index of the filter the loop is at (1-based)
    results,    \* the results dict of process_filters
    response,   \* what lambda_handler returned last
    iter,       \* the most recent loop iteration: what it did, in order
    raisedAt,   \* per processed filter of the run: the step that raised
    running,    \* CarScraperApp.running
    hist,       \* history: see NoHist
    http,       \* the scrape_listings call in progress: see NoHttp
    filtersFile, \* data/filters.json: the names of the filters it lists
    ret,        \* the most recent add_filter / remove_filter call: see NoRet
    sched,      \* CarScraperApp from __init__ to the end of run_scheduler
    mapper,     \* the mapping files and the LambdaCarScraper built from them
    overlap     \* two find_new_listings calls in progress: see NoOverlap

\* the state of the operations that are followed on their own
auxVars == <<http, filtersFile, ret, sched, mapper, overlap>>

vars == <<env, s3Obj, localFile, now, faults, call,
          app, pc, filters, telegram, i, results, response, iter, raisedAt,
          running, hist, http, filtersFile, ret, sched, mapper, overlap>>

\* ------------------------------------------------------------ s3_storage
is_lambda_environment(e) == e.AWS_LAMBDA_FUNCTION_NAME

should_use_s3(e) == e.USE_S3_STORAGE \/ is_lambda_environment(e)

\* get_s3_storage() raises when S3_BUCKET_NAME is unset or when
\* S3StorageManager.__init__ cannot create the boto3 client
get_s3_storage_raises(e, io) == ~e.S3_BUCKET_NAME \/ io["s3_client"] # "ok"

\* S3StorageManager.load_json(filename, {}): every error (the request, a
\* missing key, bytes that are not JSON) yields the default {}
load_json(obj, io) ==
    IF io["get_object"] = "ok" /\ obj.exists /\ obj.json # "corrupt" THEN obj
    ELSE NoFile

\* a save_json that merges the ids into the object it finds instead of
\* replacing the object
save_jsonMerging(obj, data, io) ==
    IF io["put_object"] = "ok"
    THEN [ok |-> TRUE,
          obj |-> [data EXCEPT !.listing_ids = @ \cup obj.listing_ids]]
    ELSE [ok |-> FALSE, obj |-> obj]

\* S3StorageManager.save_json: True and the object replaced, or False
save_json(obj, data, io) ==
    IF io["put_object"] = "ok" THEN [ok |-> TRUE, obj |-> data]
    ELSE [ok |-> FALSE, obj |-> obj]

\* ---------------------------------------------------------------- scraper
\* CarListing.to_dict at time t: first_seen or datetime.now()
to_dict(l, t) == [id |-> l.id, price |-> l.price, first_seen |-> t]

\* set(data.get('listing_ids', [])) on parsed JSON (lines 360, 367, 373):
\* the ids, or the exception the expression raises
ParseIds(data) ==
    IF data.json = "not_object" THEN [ids |-> {}, exc |-> "AttributeError"]
    ELSE IF data.json = "ids_scalar" THEN [ids |-> {}, exc |-> "TypeError"]
    ELSE IF data.json = "no_ids_key" THEN [ids |-> {}, exc |-> "none"]
    ELSE [ids |-> data.listing_ids, exc |-> "none"]

\* the local branch of load_cached_listings (lines 364-367 and 370-373): a
\* missing file falls through to "return set()"
LoadLocal(local, io) ==
    IF ~local.exists THEN [ids |-> {}, exc |-> "none"]
    ELSE IF io["local_read"] # "ok" THEN [ids |-> {}, exc |-> "OSError"]
    ELSE IF local.json = "corrupt" THEN [ids |-> {}, exc |-> "JSONDecodeError"]
    ELSE ParseIds(local)

\* lines 358-360, the body of the inner try
LoadS3Try(e, s3, io) ==
    IF get_s3_storage_raises(e, io) THEN [ids |-> {}, exc |-> "ValueError"]
    ELSE ParseIds(load_json(s3, io))

\* an "except Exception" that lets AttributeError and TypeError through, as
\* "except (OSError, ValueError)" would
LoadCaughtIOErrorsOnly(exc) == exc \in {"OSError", "ValueError", "JSONDecodeError"}

\* line 374: "except Exception" catches whatever the body raised
LoadCaught(exc) == exc # "none"

\* load_cached_listings: the set it returns, or raised when an exception
\* leaves the function
LoadOutcome(e, s3, local, io) ==
    LET body ==
            IF should_use_s3(e)
            THEN LET try == LoadS3Try(e, s3, io)
                 IN  IF try.exc = "none" THEN try ELSE LoadLocal(local, io)
            ELSE LoadLocal(local, io)
    IN  IF body.exc = "none" THEN [ids |-> body.ids, raised |-> FALSE]
        ELSE IF LoadCaught(body.exc) THEN [ids |-> {}, raised |-> FALSE]
        ELSE [ids |-> {}, raised |-> TRUE]

load_cached_listings(e, s3, local, io) == LoadOutcome(e, s3, local, io).ids

\* with open(LISTINGS_CACHE_FILE, 'w') ... json.dump
WriteLocal(local, data, io) ==
    IF io["local_write"] = "ok" THEN [file |-> data, exc |-> FALSE]
    ELSE [file |-> local, exc |-> TRUE]

\* lines 395-405, the body of the inner try
SaveS3Try(e, s3, data, io) ==
    IF get_s3_storage_raises(e, io) THEN [s3 |-> s3, saved |-> FALSE, exc |-> TRUE]
    ELSE LET r == save_json(s3, data, io)
         IN  IF r.ok THEN [s3 |-> r.obj, saved |-> TRUE, exc |-> FALSE]
             ELSE [s3 |-> s3, saved |-> FALSE,
                   exc |-> is_lambda_environment(e)]

\* lines 406-416, the handler of the inner try
SaveS3Except(e, local, data, io) ==
    IF is_lambda_environment(e) THEN [file |-> local, exc |-> TRUE]
    ELSE WriteLocal(local, data, io)

\* line 423: "except Exception" catches whatever the body raised
CaughtByOuterExcept(exc) == exc

save_cached_listings(e, s3, local, listing_ids, all_listings, t, io) ==
    LET cache_data ==
            [exists |-> TRUE,
             json |-> "ledger",
             listing_ids |-> listing_ids,
             last_updated |-> t,
             listings |-> [k \in 1..Len(all_listings) |-> to_dict(all_listings[k], t)]]
        body ==
            IF should_use_s3(e)
            THEN LET try == SaveS3Try(e, s3, cache_data, io)
                 IN  IF ~try.exc
                     THEN [s3 |-> try.s3, local |-> local, exc |-> FALSE,
                           saved |-> IF try.saved THEN "s3" ELSE "none"]
                     ELSE LET h == SaveS3Except(e, local, cache_data, io)
                          IN  [s3 |-> s3, local |-> h.file, exc |-> h.exc,
                               saved |-> IF h.exc THEN "none" ELSE "local"]
            ELSE LET w == WriteLocal(local, cache_data, io)
                 IN  [s3 |-> s3, local |-> w.file, exc |-> w.exc,
                      saved |-> IF w.exc THEN "none" ELSE "local"]
    IN  [s3 |-> body.s3, local |-> body.local, saved |-> body.saved,
         raised |-> body.exc /\ ~CaughtByOuterExcept(body.exc)]

\* NewListings with the difference taken the wrong way round
\* (cached_ids - current_ids), so that nothing fetched is ever in new_ids
NewListingsReversed(current_listings, cached_ids) ==
    LET current_ids == Ids(current_listings)
        new_ids == cached_ids \ current_ids
        InNew(l) == l.id \in new_ids
    IN  SelectSeq(current_listings, InNew)

\* lines 437-440
NewListings(current_listings, cached_ids) ==
    LET current_ids == Ids(current_listings)
        new_ids == current_ids \ cached_ids
        InNew(l) == l.id \in new_ids
    IN  SelectSeq(current_listings, InNew)

find_new_listings(e, s3, local, current_listings, t, io) ==
    LET cached_ids == load_cached_listings(e, s3, local, io)
        current_ids == Ids(current_listings)
        new_listings == NewListings(current_listings, cached_ids)
        all_ids == cached_ids \cup current_ids
        s == save_cached_listings(e, s3, local, all_ids, current_listings, t, io)
    IN  [cached_ids |-> cached_ids, new_listings |-> new_listings,
         s3 |-> s.s3, local |-> s.local, saved |-> s.saved, raised |-> s.raised]

\* the I/O calls a find_new_listings call can reach in environment e
IoReached(e) ==
    IF ~should_use_s3(e) THEN {"local_read", "local_write"}
    ELSE IF ~e.S3_BUCKET_NAME
         THEN IF is_lambda_environment(e) THEN {"local_read"}
              ELSE {"local_read", "local_write"}
         ELSE IoFields

IoChoices(e, budget) ==
    {io \in IoOutcomes :
        /\ Faults(io) <= budget
        /\ \A f \in IoFields \ IoReached(e) : io[f] = "ok"}

NoCall ==
    [at |-> 0, current |-> <<>>, cached_ids |-> {}, new_listings |-> <<>>,
     saved |-> "none", raised |-> FALSE, io |-> IoAllOk, price_changed |-> FALSE]

\* the blob load_cached_listings reads its ids from
LoadSource(e, s3, local, io) ==
    IF should_use_s3(e) /\ LoadS3Try(e, s3, io).exc = "none" THEN s3 ELSE local

\* some fetched listing has a cached id and a price other than the cached one
PriceChanged(current, cached_ids, src) ==
    \E k \in 1..Len(current), j \in 1..Len(src.listings) :
        /\ current[k].id \in cached_ids
        /\ src.listings[j].id = current[k].id
        /\ src.listings[j].price # current[k].price

\* what load_cached_listings returns when every read succeeds: the ids the
\* ledger holds
LedgerIds == load_cached_listings(env, s3Obj, localFile, IoAllOk)

\* the names filters are configured under
FilterNames == {"A", "B"}

\* the ledger blob read and written on behalf of a filter: the key is
\* 'listings_cache.json' (LISTINGS_CACHE_FILE on disk) whatever the filter;
\* load_cached_listings and save_cached_listings take no filter
LedgerOf(filter_name) == LoadSource(env, s3Obj, localFile, IoAllOk)

\* ---------------------------------------------------------- telegram_bot
\* the public methods class TelegramNotifier defines
TelegramNotifierMethods ==
    {"send_new_listing_notification", "send_multiple_listings_notification",
     "send_error_notification", "send_status_notification", "test_connection"}

\* self.telegram.<method>(...): a method of the class returns the bool of
\* _send_message, which catches every exception; any other name raises
\* AttributeError
CallTelegram(method) ==
    IF method \in TelegramNotifierMethods THEN {"True", "False"}
    ELSE {"AttributeError"}

\* -------------------------------------------------------- lambda_handler
\* scrape_listings either returns a list or lets an exception through
ScrapeOutcomes ==
    {[exc |-> FALSE, listings |-> l] : l \in FetchResults}
        \cup {[exc |-> TRUE, listings |-> <<>>]}

\* lines 278-281 (main.py 139-142): the notifier method the coordinator calls
NotifyMethod(listings) ==
    IF Len(listings) = 1 THEN "send_car_notification"
    ELSE "send_multiple_cars_notification"

\* lines 250-256
InitialResults(fs) ==
    [total_filters |-> Len(fs), successful_filters |-> 0, failed_filters |-> 0,
     total_new_listings |-> 0, filter_results |-> <<>>]

\* lines 241-246
NoFiltersResult == [statusCode |-> 400, body |-> [error |-> "No filters configured"]]

\* OnFilterException that counts the failure but appends no entry for it
OnFilterExceptionNoEntry(res, name, e) ==
    [res EXCEPT !.failed_filters = @ + 1]

\* lines 296-303: the per-filter except clause
OnFilterException(res, name, e) ==
    [res EXCEPT !.failed_filters = @ + 1,
                !.filter_results = Append(@, [filter_name |-> name,
                                              status |-> "error",
                                              error |-> e])]

\* OnFilterScraped that adds one to total_new_listings per filter that found
\* listings, instead of the number of listings found
OnFilterScrapedCountsFilters(res, name, listings, tg) ==
    [res EXCEPT !.total_new_listings = @ + (IF listings # <<>> THEN 1 ELSE 0),
                !.successful_filters = @ + 1,
                !.filter_results =
                    Append(@, [filter_name |-> name,
                               new_listings_count |-> Len(listings),
                               status |-> "success"])]

\* lines 265-294 once scrape_listings returned: tg is "none" when
\* self.telegram is None, otherwise the outcome of the notifier call
OnFilterScraped(res, name, listings, tg) ==
    LET filter_result ==
            [filter_name |-> name,
             new_listings_count |-> IF listings # <<>> THEN Len(listings) ELSE 0,
             status |-> "success"]
        notified ==
            IF listings = <<>> THEN filter_result
            ELSE IF tg = "none"
                 THEN filter_result @@ ("notification_sent" :> FALSE)
                                    @@ ("notification_error" :> "Telegram not configured")
                 ELSE IF tg = "AttributeError"
                      THEN filter_result @@ ("notification_sent" :> FALSE)
                                         @@ ("notification_error" :> tg)
                      ELSE filter_result @@ ("notification_sent" :> TRUE)
    IN  [res EXCEPT !.total_new_listings = @ + Len(listings),
                    !.successful_filters = @ + 1,
                    !.filter_results = Append(@, notified)]

\* line 258: the loop moves on to the next filter, or leaves the loop
AfterFilter(k, n, inLoop, after) == IF k + 1 > n THEN after ELSE inLoop

\* steps: the steps the iteration performed, in order; handed: the ids of the
\* listings passed to the notifier call; known_at_fetch: the ledger's ids
\* when scrape_listings was called
NoIter == [steps |-> <<>>, handed |-> {}, known_at_fetch |-> {}]

NoResponse == [statusCode |-> 0]

\* lambda_handler without its try/except: the exception leaves the handler
HandlerReraises(e) == [exception |-> e]

\* lambda_handler lines 360-369: "except Exception" returns the 500 response
HandlerExcept(e) == [statusCode |-> 500, body |-> [error |-> "Lambda function failed"]]

\* lambda_handler lines 352-358
HandlerReturn(res) ==
    [statusCode |-> 200,
     body |-> [message |-> "Scraping completed successfully", results |-> res]]

\* handed: the ids of the listings ever passed to a notifier call; fresh:
\* some filter of the run fetched a listing whose id the ledger did not hold;
\* signal_at: the filter the loop of the run was at when a shutdown signal
\* was handled (0: none)
NoHist == [handed |-> {}, fresh |-> FALSE, signal_at |-> 0]

\* the history after an iteration that fetched listings and passed the ids
\* passed to a notifier call
Fetched(h, listings, passed, known) ==
    [h EXCEPT !.handed = @ \cup passed,
              !.fresh = @ \/ (Ids(listings) \ known # {})]

\* no scrape_listings call in progress
NoHttp == [pc |-> "none"]

\* data/filters.json does not exist
NoFiltersFile == [exists |-> FALSE, json |-> TRUE, names |-> <<>>]

\* no add_filter / remove_filter call made, no CarScraperApp constructed.
\* op: "load", "add" or "remove"; name: the name passed; returned: what the
\* call returned; io: what writing the filters file did; filters_before,
\* file_before: self.filters and the filters file when the call started
NoRet == [op |-> "none", name |-> "", returned |-> FALSE, io |-> "ok",
          filters_before |-> <<>>, file_before |-> NoFiltersFile]

\* no CarScraperApp constructed.  pc: "none", "installed" (__init__ has
\* installed the signal handlers), "constructed" (__init__ has returned),
\* "loop" (run_scheduler is in its while loop), "stopped" (run_scheduler has
\* returned); signalled: signal_handler has run; ticks: iterations of the
\* loop so far; runs: the scrape runs started, each with whether
\* signal_handler had run before it started
NoSched == [pc |-> "none", signalled |-> FALSE, ticks |-> 0, runs |-> <<>>]

\* no LambdaCarScraper constructed.  files: the mapping blobs (see
\* MappingShapes); pc: "none", "constructed" or "raised"; cfg: the filter
\* variables of the environment; io: what the reads did; manufacturers,
\* models: what load_manufacturers and load_models returned ("not_loaded":
\* not called); manufacturer_id: the manufacturer was translated to an id;
\* filters: len(self.filters)
NoMapper ==
    [files |-> [s3_manufacturers |-> "missing", s3_models |-> "missing",
                local_manufacturers |-> "missing", local_models |-> "missing"],
     pc |-> "none",
     cfg |-> [format |-> "single", manufacturer |-> FALSE, model |-> FALSE],
     io |-> IoAllOk,
     manufacturers |-> "not_loaded", models |-> "not_loaded",
     manufacturer_id |-> FALSE, filters |-> 0]

\* the two runs whose find_new_listings calls can overlap
Runs == {1, 2}

\* a find_new_listings call that has not begun.  pc: "none", "loaded" (line
\* 436 done), "done" (line 446 done); loaded_at, saved_at: when the load and
\* the save took place (0: not yet); saved: where the save stored the ledger
NoRun == [pc |-> "none", current |-> <<>>, cached_ids |-> {}, new_listings |-> <<>>,
          loaded_at |-> 0, saved_at |-> 0, saved |-> "none", raised |-> FALSE]

\* no find_new_listings calls in progress; clock: the steps taken so far
NoOverlap == [clock |-> 0, runs |-> [p \in Runs |-> NoRun]]

\* nothing but the runs and the calls of Next is going on
AuxIdle ==
    /\ http = NoHttp
    /\ filtersFile = NoFiltersFile
    /\ ret = NoRet
    /\ sched = NoSched
    /\ mapper = NoMapper
    /\ overlap = NoOverlap

Init ==
    /\ AuxIdle
    /\ env \in Environments
    /\ s3Obj = NoFile
    /\ localFile = NoFile
    /\ now = 0
    /\ faults = 0
    /\ call = NoCall
    /\ app = "none"
    /\ pc = "idle"
    /\ filters = <<>>
    /\ telegram = FALSE
    /\ i = 0
    /\ results = InitialResults(<<>>)
    /\ response = NoResponse
    /\ iter = NoIter
    /\ raisedAt = <<>>
    /\ running = FALSE
    /\ hist = NoHist

\* one call of Yad2Scraper.find_new_listings(current)
FindNewListings ==
    /\ pc = "idle"
    /\ now < MaxTime
    /\ \E current \in FetchResults, io \in IoChoices(env, MaxFaults - faults) :
         LET r == find_new_listings(env, s3Obj, localFile, current, now + 1, io)
         IN  /\ s3Obj' = r.s3
             /\ localFile' = r.local
             /\ faults' = faults + Faults(io)
             /\ call' = [at |-> now + 1, current |-> current,
                         cached_ids |-> r.cached_ids,
                         new_listings |-> r.new_listings,
                         saved |-> r.saved, raised |-> r.raised, io |-> io,
                         price_changed |->
                             PriceChanged(current, r.cached_ids,
                                          LoadSource(env, s3Obj, localFile, io))]
    /\ now' = now + 1
    /\ app' = "none"
    /\ filters' = <<>> /\ telegram' = FALSE /\ i' = 0
    /\ results' = InitialResults(<<>>) /\ response' = NoResponse
    /\ iter' = NoIter /\ raisedAt' = <<>>
    /\ running' = FALSE
    /\ hist' = [hist EXCEPT !.fresh = FALSE, !.signal_at = 0]
    /\ UNCHANGED auxVars
    /\ UNCHANGED <<env, pc>>

\* lambda_handler up to the loop of process_filters: lines 319-333, 24-44
\* and 241-256
LambdaStart ==
    /\ pc = "idle"
    /\ now + 1 < MaxTime
    /\ now' = now + 1
    /\ call' = NoCall
    /\ app' = "lambda"
    /\ iter' = NoIter /\ raisedAt' = <<>>
    /\ running' = FALSE
    /\ hist' = [hist EXCEPT !.fresh = FALSE, !.signal_at = 0]
    /\ \E fs \in FilterLists, tg \in BOOLEAN, initOk \in BOOLEAN :
         IF ~initOk
         THEN \* LambdaCarScraper() raised
              /\ response' = HandlerExcept("InitError")
              /\ filters' = <<>> /\ telegram' = FALSE /\ i' = 0
              /\ results' = InitialResults(<<>>)
              /\ pc' = "idle"
         ELSE /\ filters' = fs
              /\ telegram' = tg
              /\ response' = NoResponse
              /\ IF fs = <<>>
                 THEN /\ results' = NoFiltersResult
                      /\ i' = 0
                      /\ pc' = "summary"
                 ELSE /\ results' = InitialResults(fs)
                      /\ i' = 1
                      /\ pc' = "filter"
    /\ UNCHANGED auxVars
    /\ UNCHANGED <<env, s3Obj, localFile, faults>>

\* one iteration of the loop of process_filters: lines 258-303
ProcessFilter ==
    /\ pc = "filter"
    /\ \E s \in ScrapeOutcomes :
         IF s.exc
         THEN /\ results' = OnFilterException(results, filters[i], "ScrapeError")
              /\ iter' = [steps |-> <<"fetch">>, handed |-> {},
                          known_at_fetch |-> LedgerIds]
              /\ raisedAt' = Append(raisedAt, "fetch")
              /\ hist' = hist
         ELSE IF s.listings # <<>> /\ telegram
              THEN \E o \in CallTelegram(NotifyMethod(s.listings)) :
                     /\ results' = OnFilterScraped(results, filters[i], s.listings, o)
                     /\ iter' = [steps |-> <<"fetch", "notify">>,
                                 handed |-> Ids(s.listings),
                                 known_at_fetch |-> LedgerIds]
                     /\ raisedAt' = Append(raisedAt,
                                       IF o = "AttributeError" THEN "notify" ELSE "none")
                     /\ hist' = Fetched(hist, s.listings, Ids(s.listings), LedgerIds)
              ELSE /\ results' = OnFilterScraped(results, filters[i], s.listings, "none")
                   /\ iter' = [steps |-> <<"fetch">>, handed |-> {},
                               known_at_fetch |-> LedgerIds]
                   /\ raisedAt' = Append(raisedAt, "none")
                   /\ hist' = Fetched(hist, s.listings, {}, LedgerIds)
    /\ i' = i + 1
    /\ pc' = AfterFilter(i, Len(filters), "filter", "summary")
    /\ UNCHANGED auxVars
    /\ UNCHANGED <<env, now, s3Obj, localFile, faults, call, app, filters, telegram,
                   response, running>>

\* lambda_handler after process_filters returned: lines 335-369
LambdaFinish ==
    /\ pc = "summary"
    /\ IF telegram /\ "total_new_listings" \notin DOMAIN results
       THEN \* results['total_new_listings'] raises KeyError
            response' = HandlerExcept("KeyError")
       ELSE IF telegram /\ results.total_new_listings > 0
            THEN \* summary: what send_status_notification returned
                 \E o \in CallTelegram("send_status_notification") :
                   response' = HandlerReturn(results) @@ ("summary" :> o)
            ELSE response' = HandlerReturn(results)
    /\ pc' = "idle"
    /\ now' = now + 1
    /\ UNCHANGED auxVars
    /\ UNCHANGED <<env, s3Obj, localFile, faults, call, app, filters, telegram, i,
                   results, iter, raisedAt, running, hist>>

\* ------------------------------------------------------------------ main
\* CarScraperApp.scrape_single_run up to its loop: lines 120-126.  The app's
\* self.telegram is always a TelegramNotifier (setup_telegram_bot).
CliStart ==
    /\ pc = "idle"
    /\ now + 1 < MaxTime
    /\ now' = now + 1
    /\ call' = NoCall
    /\ app' = "cli"
    /\ iter' = NoIter /\ raisedAt' = <<>>
    /\ running' = TRUE
    /\ hist' = [hist EXCEPT !.fresh = FALSE, !.signal_at = 0]
    /\ results' = InitialResults(<<>>) /\ response' = NoResponse
    /\ telegram' = TRUE
    /\ \E fs \in FilterLists :
         /\ filters' = fs
         /\ IF fs = <<>> THEN i' = 0 /\ pc' = "idle"
            ELSE i' = 1 /\ pc' = "cli_filter"
    /\ UNCHANGED auxVars
    /\ UNCHANGED <<env, s3Obj, localFile, faults>>

\* one iteration of the loop of scrape_single_run: lines 128-147
CliProcessFilter ==
    /\ pc = "cli_filter"
    /\ \E s \in ScrapeOutcomes :
         IF s.exc
         THEN /\ iter' = [steps |-> <<"fetch">>, handed |-> {},
                          known_at_fetch |-> LedgerIds]
              /\ raisedAt' = Append(raisedAt, "fetch")
              /\ hist' = hist
         ELSE IF s.listings # <<>>
              THEN \E o \in CallTelegram(NotifyMethod(s.listings)) :
                     /\ iter' = [steps |-> <<"fetch", "notify">>,
                                 handed |-> Ids(s.listings),
                                 known_at_fetch |-> LedgerIds]
                     /\ raisedAt' = Append(raisedAt,
                                       IF o = "AttributeError" THEN "notify" ELSE "none")
                     /\ hist' = Fetched(hist, s.listings, Ids(s.listings), LedgerIds)
              ELSE /\ iter' = [steps |-> <<"fetch">>, handed |-> {},
                               known_at_fetch |-> LedgerIds]
                   /\ raisedAt' = Append(raisedAt, "none")
                   /\ hist' = Fetched(hist, s.listings, {}, LedgerIds)
    /\ i' = i + 1
    /\ pc' = AfterFilter(i, Len(filters), "cli_filter", "idle")
    /\ now' = IF pc' = "idle" THEN now + 1 ELSE now
    /\ UNCHANGED auxVars
    /\ UNCHANGED <<env, s3Obj, localFile, faults, call, app, filters, telegram,
                   results, response, running>>

\* CarScraperApp.signal_handler (SIGINT, SIGTERM): lines 61-64.  The handler
\* runs between two instructions of the main thread; it only writes
\* self.running, so when it runs during an iteration of the loop it has the
\* effect of running right after that iteration.
signal_handler ==
    /\ app = "cli"
    /\ running
    /\ running' = FALSE
    /\ hist' = [hist EXCEPT !.signal_at = IF pc = "cli_filter" THEN i ELSE 0]
    /\ UNCHANGED auxVars
    /\ UNCHANGED <<env, s3Obj, localFile, now, faults, call, app, pc, filters,
                   telegram, i, results, response, iter, raisedAt>>

Next ==
    \/ FindNewListings
    \/ LambdaStart
    \/ ProcessFilter
    \/ LambdaFinish
    \/ CliStart
    \/ CliProcessFilter
    \/ signal_handler

Spec == Init /\ [][Next]_vars

TypeOK ==
    /\ env \in Environments
    /\ now \in 0..MaxTime
    /\ faults \in 0..MaxFaults
    /\ call.raised \in BOOLEAN
    /\ pc \in {"idle", "filter", "summary", "cli_filter"}
    /\ app \in {"none", "lambda", "cli"}

\* ------------------------------------------------- the ledger read alone
\* load_cached_listings meets whatever bytes the ledger blobs hold, not only
\* the ledgers save_cached_listings wrote
InitLoad ==
    /\ AuxIdle
    /\ env \in Environments
    /\ s3Obj \in Blobs
    /\ localFile \in Blobs
    /\ now = 0
    /\ faults = 0
    /\ call = NoCall
    /\ app = "none"
    /\ pc = "idle"
    /\ filters = <<>>
    /\ telegram = FALSE
    /\ i = 0
    /\ results = InitialResults(<<>>)
    /\ response = NoResponse
    /\ iter = NoIter
    /\ raisedAt = <<>>
    /\ running = FALSE
    /\ hist = NoHist

\* one call of Yad2Scraper.load_cached_listings()
LoadCachedListings ==
    /\ pc = "idle"
    /\ now < MaxTime
    /\ \E io \in IoChoices(env, MaxFaults - faults) :
         /\ io["put_object"] = "ok" /\ io["local_write"] = "ok"
         /\ LET r == LoadOutcome(env, s3Obj, localFile, io)
            IN  call' = [NoCall EXCEPT !.at = now + 1, !.cached_ids = r.ids,
                                       !.raised = r.raised, !.io = io]
         /\ faults' = faults + Faults(io)
    /\ now' = now + 1
    /\ UNCHANGED auxVars
    /\ UNCHANGED <<env, s3Obj, localFile, app, pc, filters, telegram, i, results,
                   response, iter, raisedAt, running, hist>>

NextLoad == LoadCachedListings

SpecLoad == InitLoad /\ [][NextLoad]_vars

\* ------------------------------------------------- scrape_listings alone
\* config.py line 24
MAX_RETRIES == 3

\* what one self.session.get(...) of _make_request does: a response with
\* status 200, with status 429, with another status, a
\* requests.RequestException, or an exception of another class
GetOutcomes == {"200", "429", "other_status", "RequestException", "OtherException"}

\* a loop that runs once more than range(MAX_RETRIES)
AttemptInRangeInclusive(attempt) == attempt <= MAX_RETRIES

\* line 135: for attempt in range(MAX_RETRIES)
AttemptInRange(attempt) == attempt < MAX_RETRIES

\* line 159: except requests.RequestException
MakeRequestCaught(o) == o = "RequestException"

\* scrape_listings was called: _make_request is about to enter its loop.
\* attempt: the loop variable; gets: what each self.session.get did, in order
HttpCalled(name) ==
    [pc |-> "request", filter |-> name, attempt |-> 0, gets |-> <<>>,
     raised |-> FALSE, listings |-> <<>>]

\* scrape_listings(search_filter) up to the call of _make_request: lines
\* 290-303
ScrapeListings ==
    /\ http.pc \in {"none", "returned"}
    /\ \E name \in FilterNames : http' = HttpCalled(name)
    /\ UNCHANGED <<env, s3Obj, localFile, now, faults, call, app, pc, filters,
                   telegram, i, results, response, iter, raisedAt, running, hist,
                   filtersFile, ret, sched, mapper, overlap>>

\* one iteration of the loop of _make_request: lines 135-162
MakeRequestAttempt ==
    /\ http.pc = "request"
    /\ AttemptInRange(http.attempt)
    /\ \E o \in GetOutcomes :
         LET gets == Append(http.gets, o)
         IN  IF o = "200"
             THEN \* line 150: return response
                  http' = [http EXCEPT !.gets = gets, !.pc = "parse"]
             ELSE IF o \in {"429", "other_status"} \/ MakeRequestCaught(o)
                  THEN http' = [http EXCEPT !.gets = gets, !.attempt = @ + 1]
                  ELSE \* the exception leaves _make_request and scrape_listings
                       http' = [http EXCEPT !.gets = gets, !.pc = "returned",
                                            !.raised = TRUE]
    /\ UNCHANGED <<env, s3Obj, localFile, now, faults, call, app, pc, filters,
                   telegram, i, results, response, iter, raisedAt, running, hist,
                   filtersFile, ret, sched, mapper, overlap>>

\* the loop of _make_request is exhausted: it returns None (lines 164-165)
\* and scrape_listings returns [] (lines 305-307)
MakeRequestGiveUp ==
    /\ http.pc = "request"
    /\ ~AttemptInRange(http.attempt)
    /\ http' = [http EXCEPT !.pc = "returned", !.listings = <<>>]
    /\ UNCHANGED <<env, s3Obj, localFile, now, faults, call, app, pc, filters,
                   telegram, i, results, response, iter, raisedAt, running, hist,
                   filtersFile, ret, sched, mapper, overlap>>

\* scrape_listings after _make_request returned a response: lines 309-345
ParseResponse ==
    /\ http.pc = "parse"
    /\ \E listings \in FetchResults :
         http' = [http EXCEPT !.pc = "returned", !.listings = listings]
    /\ UNCHANGED <<env, s3Obj, localFile, now, faults, call, app, pc, filters,
                   telegram, i, results, response, iter, raisedAt, running, hist,
                   filtersFile, ret, sched, mapper, overlap>>

NextScrape ==
    \/ ScrapeListings
    \/ MakeRequestAttempt
    \/ MakeRequestGiveUp
    \/ ParseResponse

SpecScrape == Init /\ [][NextScrape]_vars

\* ------------------------------------------- the filter list of the app
\* the names a filter can have: "default" is the one load_filters creates
AllFilterNames == FilterNames \cup {"default"}

\* the lists of filters with distinct names
DistinctFilterLists ==
    {fs \in UNION {[1..n -> AllFilterNames] : n \in 0..Cardinality(AllFilterNames)} :
        \A k, m \in 1..Len(fs) : fs[k] = fs[m] => k = m}

\* the filters file when the app is constructed: none, a JSON list of
\* filters with distinct names, or bytes that json.load rejects
FilterFiles ==
    {NoFiltersFile}
        \cup {[exists |-> TRUE, json |-> TRUE, names |-> fs] : fs \in DistinctFilterLists}
        \cup {[exists |-> TRUE, json |-> FALSE, names |-> <<>>]}

\* what writing the filters file can do: succeed, fail in open (the file is
\* left as it was), or fail in json.dump after open(..., 'w') truncated it
WriteOutcomes == {"ok", "open_error", "dump_error"}

\* save_filters(filters): lines 85-94
save_filters(file, fs, io) ==
    IF io = "ok"
    THEN [ok |-> TRUE, file |-> [exists |-> TRUE, json |-> TRUE, names |-> fs]]
    ELSE IF io = "open_error" THEN [ok |-> FALSE, file |-> file]
    ELSE [ok |-> FALSE, file |-> [exists |-> TRUE, json |-> FALSE, names |-> <<>>]]

\* load_filters(): lines 66-83
load_filters(file, io) ==
    IF ~file.exists
    THEN [filters |-> <<"default">>, file |-> save_filters(file, <<"default">>, io).file]
    ELSE IF file.json THEN [filters |-> file.names, file |-> file]
    ELSE [filters |-> <<>>, file |-> file]

\* an add_filter that skips the check of the existing names
NameExistsNever(fs, name) == FALSE

\* lines 99-100: search_filter.name in existing_names
NameExists(fs, name) == \E k \in 1..Len(fs) : fs[k] = name

\* line 110: [f for f in self.filters if f.name != filter_name]
WithoutName(fs, name) ==
    LET Keep(n) == n # name IN SelectSeq(fs, Keep)

\* add_filter(search_filter): lines 96-105
add_filter(fs, file, name, io) ==
    IF NameExists(fs, name)
    THEN [filters |-> fs, file |-> file, returned |-> FALSE]
    ELSE LET appended == Append(fs, name)
             saved == save_filters(file, appended, io)
         IN  [filters |-> appended, file |-> saved.file, returned |-> saved.ok]

\* remove_filter(filter_name): lines 107-114
remove_filter(fs, file, name, io) ==
    LET kept == WithoutName(fs, name)
    IN  IF Len(kept) < Len(fs)
        THEN LET saved == save_filters(file, kept, io)
             IN  [filters |-> kept, file |-> saved.file, returned |-> saved.ok]
        ELSE [filters |-> kept, file |-> file, returned |-> FALSE]

\* the app is about to be constructed over some filters file
InitFilters ==
    /\ Init
    /\ ret = NoRet

\* CarScraperApp.__init__ line 40: self.filters = self.load_filters()
LoadFilters ==
    /\ ret.op = "none"
    /\ \E file \in FilterFiles, io \in WriteOutcomes :
         LET r == load_filters(file, io)
         IN  /\ filters' = r.filters
             /\ filtersFile' = r.file
             /\ ret' = [op |-> "load", name |-> "", returned |-> TRUE, io |-> io,
                        filters_before |-> <<>>, file_before |-> file]
    /\ UNCHANGED <<env, s3Obj, localFile, now, faults, call, app, pc,
                   telegram, i, results, response, iter, raisedAt, running, hist,
                   http, sched, mapper, overlap>>

\* one call of CarScraperApp.add_filter
AddFilter ==
    /\ ret.op # "none"
    /\ \E name \in AllFilterNames, io \in WriteOutcomes :
         LET r == add_filter(filters, filtersFile, name, io)
         IN  /\ filters' = r.filters
             /\ filtersFile' = r.file
             /\ ret' = [op |-> "add", name |-> name, returned |-> r.returned,
                        io |-> io, filters_before |-> filters,
                        file_before |-> filtersFile]
    /\ UNCHANGED <<env, s3Obj, localFile, now, faults, call, app, pc,
                   telegram, i, results, response, iter, raisedAt, running, hist,
                   http, sched, mapper, overlap>>

\* one call of CarScraperApp.remove_filter
RemoveFilter ==
    /\ ret.op # "none"
    /\ \E name \in AllFilterNames, io \in WriteOutcomes :
         LET r == remove_filter(filters, filtersFile, name, io)
         IN  /\ filters' = r.filters
             /\ filtersFile' = r.file
             /\ ret' = [op |-> "remove", name |-> name, returned |-> r.returned,
                        io |-> io, filters_before |-> filters,
                        file_before |-> filtersFile]
    /\ UNCHANGED <<env, s3Obj, localFile, now, faults, call, app, pc,
                   telegram, i, results, response, iter, raisedAt, running, hist,
                   http, sched, mapper, overlap>>

NextFilters ==
    \/ LoadFilters
    \/ AddFilter
    \/ RemoveFilter

SpecFilters == InitFilters /\ [][NextFilters]_vars

\* ------------------------------------------------------- run_scheduler
\* what one iteration of the loop of run_scheduler does (lines 162-169):
\* schedule.run_pending() finds no job due, runs the due scrape_single_run,
\* or raises an exception, which is logged
PendingOutcomes == {"nothing_due", "job_run", "exception"}

\* CarScraperApp.__init__ up to line 46: the handlers of SIGINT and SIGTERM
\* are installed, self.running is not set yet
InstallHandlers ==
    /\ sched.pc = "none"
    /\ sched' = [sched EXCEPT !.pc = "installed"]
    /\ UNCHANGED <<env, s3Obj, localFile, now, faults, call, app, pc, filters,
                   telegram, i, results, response, iter, raisedAt, running, hist,
                   http, filtersFile, ret, mapper, overlap>>

\* CarScraperApp.__init__ line 48: self.running = True
SetRunning ==
    /\ sched.pc = "installed"
    /\ running' = TRUE
    /\ sched' = [sched EXCEPT !.pc = "constructed"]
    /\ UNCHANGED <<env, s3Obj, localFile, now, faults, call, app, pc, filters,
                   telegram, i, results, response, iter, raisedAt, hist,
                   http, filtersFile, ret, mapper, overlap>>

\* signal_handler (lines 61-64) run by a SIGINT or SIGTERM delivered while
\* the handlers are installed and run_scheduler has not returned
SignalDelivered ==
    /\ sched.pc \in {"installed", "constructed", "loop"}
    /\ ~sched.signalled
    /\ running' = FALSE
    /\ sched' = [sched EXCEPT !.signalled = TRUE]
    /\ UNCHANGED <<env, s3Obj, localFile, now, faults, call, app, pc, filters,
                   telegram, i, results, response, iter, raisedAt, hist,
                   http, filtersFile, ret, mapper, overlap>>

\* run_scheduler up to its loop: lines 151-158, with the initial
\* scrape_single_run
RunSchedulerStart ==
    /\ sched.pc = "constructed"
    /\ sched' = [sched EXCEPT !.pc = "loop",
                              !.runs = Append(@, sched.signalled)]
    /\ UNCHANGED <<env, s3Obj, localFile, now, faults, call, app, pc, filters,
                   telegram, i, results, response, iter, raisedAt, running, hist,
                   http, filtersFile, ret, mapper, overlap>>

\* one iteration of "while self.running": lines 161-169
SchedulerLoop ==
    /\ sched.pc = "loop"
    /\ running
    /\ sched.ticks < MaxTicks
    /\ \E o \in PendingOutcomes :
         sched' = [sched EXCEPT !.ticks = @ + 1,
                               !.runs = IF o = "job_run"
                                        THEN Append(@, sched.signalled) ELSE @]
    /\ UNCHANGED <<env, s3Obj, localFile, now, faults, call, app, pc, filters,
                   telegram, i, results, response, iter, raisedAt, running, hist,
                   http, filtersFile, ret, mapper, overlap>>

\* the loop condition is false: run_scheduler returns (line 171)
SchedulerStop ==
    /\ sched.pc = "loop"
    /\ ~running
    /\ sched' = [sched EXCEPT !.pc = "stopped"]
    /\ UNCHANGED <<env, s3Obj, localFile, now, faults, call, app, pc, filters,
                   telegram, i, results, response, iter, raisedAt, running, hist,
                   http, filtersFile, ret, mapper, overlap>>

NextSched ==
    \/ InstallHandlers
    \/ SetRunning
    \/ SignalDelivered
    \/ RunSchedulerStart
    \/ SchedulerLoop
    \/ SchedulerStop

SpecSched == Init /\ [][NextSched]_vars

\* ------------------------------------- two find_new_listings calls at once
\* Nothing in find_new_listings, load_cached_listings, save_cached_listings
\* or S3StorageManager takes a lock or makes the write conditional: two runs
\* (two Lambda invocations, or a Lambda and a local run on the same bucket)
\* execute the lines of find_new_listings in any interleaving.

\* find_new_listings lines 436-440 of run p: the load and the difference
OverlapLoad(p) ==
    /\ overlap.runs[p].pc = "none"
    /\ \E current \in FetchResults, io \in IoChoices(env, MaxFaults - faults) :
         /\ io["put_object"] = "ok" /\ io["local_write"] = "ok"
         /\ LET cached_ids == load_cached_listings(env, s3Obj, localFile, io)
            IN  overlap' =
                    [overlap EXCEPT
                        !.clock = @ + 1,
                        !.runs[p] = [NoRun EXCEPT
                            !.pc = "loaded",
                            !.current = current,
                            !.cached_ids = cached_ids,
                            !.new_listings = NewListings(current, cached_ids),
                            !.loaded_at = overlap.clock + 1]]
         /\ faults' = faults + Faults(io)
    /\ UNCHANGED <<env, s3Obj, localFile, now, call, app, pc, filters,
                   telegram, i, results, response, iter, raisedAt, running, hist,
                   http, filtersFile, ret, sched, mapper>>

\* find_new_listings lines 445-448 of run p: the save and the return
OverlapSave(p) ==
    /\ overlap.runs[p].pc = "loaded"
    /\ \E io \in IoChoices(env, MaxFaults - faults) :
         /\ io["get_object"] = "ok" /\ io["local_read"] = "ok"
         /\ LET r == overlap.runs[p]
                all_ids == r.cached_ids \cup Ids(r.current)
                sv == save_cached_listings(env, s3Obj, localFile, all_ids, r.current,
                                           overlap.clock + 1, io)
            IN  /\ s3Obj' = sv.s3
                /\ localFile' = sv.local
                /\ overlap' =
                       [overlap EXCEPT
                           !.clock = @ + 1,
                           !.runs[p] = [r EXCEPT !.pc = "done",
                                                 !.saved_at = overlap.clock + 1,
                                                 !.saved = sv.saved,
                                                 !.raised = sv.raised]]
         /\ faults' = faults + Faults(io)
    /\ UNCHANGED <<env, now, call, app, pc, filters,
                   telegram, i, results, response, iter, raisedAt, running, hist,
                   http, filtersFile, ret, sched, mapper>>

NextOverlap ==
    \E p \in Runs :
        \/ OverlapLoad(p)
        \/ OverlapSave(p)

SpecOverlap == Init /\ [][NextOverlap]_vars

\* ------------------------------- LambdaCarScraper and the mapping files
\* what manufacturers.json / models.json hold, in S3 or under data/: nothing
\* ("missing"), the mapping save_manufacturers / save_models wrote with the
\* configured manufacturer and model in it ("mapping"), a mapping without
\* them ("empty"), or bytes that are not JSON ("corrupt")
MappingShapes == {"missing", "mapping", "empty", "corrupt"}

\* how the filters are given in the environment (load_filters_from_env):
\* FILTER_1 as JSON, FILTER_1_NAME and its companions, or the single
\* MANUFACTURER / MODEL variables; with a manufacturer name or without, with
\* a model name or without
FilterEnvs ==
    [format : {"json", "individual", "single"}, manufacturer : BOOLEAN, model : BOOLEAN]

\* manufacturer_mapper.py lines 44-47 and 50-52 (60-70, 73-75): the local
\* read; a missing file falls through to "return {}"
MapperLocal(local, io) ==
    IF local = "missing" THEN [data |-> "empty", exc |-> "none"]
    ELSE IF io["local_read"] # "ok" THEN [data |-> "empty", exc |-> "OSError"]
    ELSE IF local = "corrupt" THEN [data |-> "empty", exc |-> "JSONDecodeError"]
    ELSE [data |-> local, exc |-> "none"]

\* lines 38-40 (61-63): the body of the inner try
MapperS3Try(e, s3, io) ==
    IF get_s3_storage_raises(e, io) THEN [data |-> "empty", exc |-> "ValueError"]
    ELSE IF io["get_object"] = "ok" /\ s3 \in {"mapping", "empty"}
         THEN [data |-> s3, exc |-> "none"]
         ELSE [data |-> "empty", exc |-> "none"]

\* an inner handler that catches nothing: the exception of get_s3_storage
\* goes to the outer handler
S3FallbackCaughtNever(exc) == FALSE

\* line 41 (64): "except Exception as s3_error" catches whatever the S3
\* branch raised
S3FallbackCaught(exc) == exc # "none"

\* line 51 (74): "except Exception" catches whatever the body raised
MapperLoadCaught(exc) == exc # "none"

\* load_manufacturers / load_models: lines 33-54 and 56-77
load_mapping(e, s3, local, io) ==
    LET body ==
            IF should_use_s3(e)
            THEN LET try == MapperS3Try(e, s3, io)
                 IN  IF try.exc = "none" THEN try
                     ELSE IF S3FallbackCaught(try.exc) THEN MapperLocal(local, io)
                     ELSE try
            ELSE MapperLocal(local, io)
    IN  IF body.exc = "none" THEN [data |-> body.data, raised |-> FALSE]
        ELSE IF MapperLoadCaught(body.exc) THEN [data |-> "empty", raised |-> FALSE]
        ELSE [data |-> "empty", raised |-> TRUE]

\* LambdaCarScraper() over the mapping files f with the filter variables
\* cfg: __init__ lines 24-44, load_filters_from_env 53-104 and the
\* translations 179-232.  The manufacturers are loaded when a manufacturer
\* name is given, the models when that name was translated and a model name
\* is given.
NewLambdaCarScraper(e, f, cfg, io) ==
    LET mf == IF cfg.manufacturer
              THEN load_mapping(e, f.s3_manufacturers, f.local_manufacturers, io)
              ELSE [data |-> "not_loaded", raised |-> FALSE]
        \* find_manufacturer_by_name finds the id in a mapping that holds it
        manufacturer_id == cfg.manufacturer /\ ~mf.raised /\ mf.data = "mapping"
        \* the JSON form keeps the untranslated name (lines 183-186)
        has_manufacturer == manufacturer_id \/ (cfg.format = "json" /\ cfg.manufacturer)
        md == IF cfg.model /\ has_manufacturer /\ ~mf.raised
              THEN load_mapping(e, f.s3_models, f.local_models, io)
              ELSE [data |-> "not_loaded", raised |-> FALSE]
        \* the exception of a translation is caught in the JSON form only
        \* (lines 84-91)
        escapes == (mf.raised \/ md.raised) /\ cfg.format # "json"
        loaded == IF cfg.format = "json" THEN (IF mf.raised \/ md.raised THEN 0 ELSE 1)
                   ELSE IF cfg.format = "individual" THEN 1
                   ELSE IF manufacturer_id THEN 1 ELSE 0
    IN  [files |-> f,
         pc |-> IF escapes THEN "raised" ELSE "constructed",
         cfg |-> cfg, io |-> io,
         manufacturers |-> mf.data, models |-> md.data,
         manufacturer_id |-> manufacturer_id,
         filters |-> IF escapes THEN 0 ELSE loaded]

\* the process has started over some mapping files
InitMapper ==
    /\ env \in Environments
    /\ s3Obj = NoFile
    /\ localFile = NoFile
    /\ now = 0
    /\ faults = 0
    /\ call = NoCall
    /\ app = "none"
    /\ pc = "idle"
    /\ filters = <<>>
    /\ telegram = FALSE
    /\ i = 0
    /\ results = InitialResults(<<>>)
    /\ response = NoResponse
    /\ iter = NoIter
    /\ raisedAt = <<>>
    /\ running = FALSE
    /\ hist = NoHist
    /\ http = NoHttp
    /\ filtersFile = NoFiltersFile
    /\ ret = NoRet
    /\ sched = NoSched
    /\ overlap = NoOverlap
    /\ \E f \in [DOMAIN NoMapper.files -> MappingShapes] :
         mapper = [NoMapper EXCEPT !.files = f]

\* one construction of LambdaCarScraper (lambda_handler line 327)
ConstructLambdaCarScraper ==
    /\ mapper.pc = "none"
    /\ \E cfg \in FilterEnvs, io \in IoChoices(env, MaxFaults - faults) :
         /\ io["put_object"] = "ok" /\ io["local_write"] = "ok"
         /\ mapper' = NewLambdaCarScraper(env, mapper.files, cfg, io)
         /\ faults' = faults + Faults(io)
    /\ UNCHANGED <<env, s3Obj, localFile, now, call, app, pc, filters,
                   telegram, i, results, response, iter, raisedAt, running, hist,
                   http, filtersFile, ret, sched, overlap>>

NextMapper == ConstructLambdaCarScraper

SpecMapper == InitMapper /\ [][NextMapper]_vars

\* ================================================================ claims
\* a step that is a find_new_listings call
IsCall == call'.at > call.at

\* the reads of the call's load all succeeded
LoadOk(io) == io["s3_client"] = "ok" /\ io["get_object"] = "ok" /\ io["local_read"] = "ok"

\* C1: every listing a run hands to the notifier has an id that was absent
\* from the ledger when the filter was fetched; a known id is never handed
\* over, and nothing is handed over when the fetch holds no new id.
C1_OnlyNewListingsNotified == iter.handed \cap iter.known_at_fetch = {}

\* C2: find_new_listings(current) returns exactly the listings of current
\* whose id is not among the ledger's known ids at the time of the call (the
\* ids load_cached_listings returned, which are the stored listing_ids when
\* the reads succeed); membership is by id alone, whatever the price.
C2_NewIsUnknownIds ==
    [][IsCall =>
        LET Unknown(l) == l.id \notin call'.cached_ids
        IN  /\ call'.new_listings = SelectSeq(call'.current, Unknown)
            /\ LoadOk(call'.io) => call'.cached_ids = LedgerIds]_vars

\* C2 witness: a call fetched a listing with a known id and a changed price
\* together with an unknown listing, and returned only the unknown one
C2_Witness ==
    /\ call.at > 0
    /\ call.price_changed
    /\ Len(call.current) = 2
    /\ Len(call.new_listings) = 1
    /\ call.new_listings[1].id \notin call.cached_ids

\* the ids some successful save has put into a ledger blob
SavedIds == s3Obj.listing_ids \cup localFile.listing_ids

\* C3: an id processed by a run whose ledger save succeeded is never
\* reported as new by a later run.
C3_SavedIdNeverReportedAgain == iter.handed \cap SavedIds = {}

\* C4: each completed persist leaves the durable known-id set a superset of
\* its previous value, holding every id of the snapshot set just processed,
\* whatever the load returned.
C4_KnownIdsOnlyGrow ==
    [][IsCall =>
        /\ call'.saved = "s3" =>
             /\ s3Obj.listing_ids \subseteq s3Obj'.listing_ids
             /\ Ids(call'.current) \subseteq s3Obj'.listing_ids
        /\ call'.saved = "local" =>
             /\ localFile.listing_ids \subseteq localFile'.listing_ids
             /\ Ids(call'.current) \subseteq localFile'.listing_ids]_vars

\* what a ledger blob holds apart from its timestamps
Stored(f) ==
    [listing_ids |-> f.listing_ids,
     listings |-> [k \in 1..Len(f.listings) |->
                      [id |-> f.listings[k].id, price |-> f.listings[k].price]]]

\* C5: find_new_listings([]) returns no new listing and leaves the stored
\* known ids and the stored listing payloads as they were.
C5_EmptyFetchIsNoOp ==
    [][(IsCall /\ call'.current = <<>>) =>
        /\ call'.new_listings = <<>>
        /\ Stored(s3Obj') = Stored(s3Obj)
        /\ Stored(localFile') = Stored(localFile)]_vars

Contains(seq, x) == \E k \in 1..Len(seq) : seq[k] = x

\* C6: the updated ledger is persisted for a filter whatever the outcome of
\* its notification attempt: once the attempt was made, the ledger holds the
\* ids that were handed over.
C6_PersistedWhateverNotifyDid ==
    Contains(iter.steps, "notify") => iter.handed \subseteq LedgerIds

\* C7: within a filter the steps come in the order fetch, diff, notify,
\* persist: no notification attempt without the diff before it, no ledger
\* save before the notification attempt.
C7_FetchDiffNotifyPersist ==
    LET st == iter.steps
    IN  \A k \in 1..Len(st) :
            /\ st[k] = "notify" => \E j \in 1..(k - 1) : st[j] = "diff"
            /\ st[k] = "diff" => \E j \in 1..(k - 1) : st[j] = "fetch"
            /\ st[k] = "persist" => ~\E j \in (k + 1)..Len(st) : st[j] = "notify"

\* results is the report of a process_filters loop
HasReport == app = "lambda" /\ filters # <<>>

\* C8 as stated: whatever step of a filter raised, its report entry has
\* status error.
C8_EveryRaiseIsStatusError ==
    HasReport =>
        \A k \in 1..Len(results.filter_results) :
            raisedAt[k] # "none" => results.filter_results[k].status = "error"

\* C8 amended: a filter whose fetch or notification call raises does not stop
\* the loop: every filter gets its entry, in order, and the run returns; a
\* raising fetch is recorded as status error with the error, a raising
\* notification call as notification_sent false with notification_error in
\* an entry whose status stays success.
C8_FilterFailureIsIsolated ==
    /\ pc = "filter" => i <= Len(filters) /\ Len(results.filter_results) = i - 1
    /\ pc = "cli_filter" => i <= Len(filters) /\ Len(raisedAt) = i - 1
    /\ (pc = "summary" /\ filters # <<>>) =>
           Len(results.filter_results) = Len(filters)
    /\ (app = "cli" /\ pc = "idle") => Len(raisedAt) = Len(filters)
    /\ (HasReport /\ pc = "idle") =>
           /\ response.statusCode = 200
           /\ response.body.results = results
           /\ Len(results.filter_results) = Len(filters)
    /\ HasReport =>
           \A k \in 1..Len(results.filter_results) :
               LET entry == results.filter_results[k]
               IN  /\ entry.filter_name = filters[k]
                   /\ raisedAt[k] = "fetch" =>
                          /\ entry.status = "error"
                          /\ "error" \in DOMAIN entry
                   /\ raisedAt[k] = "notify" =>
                          /\ entry.status = "success"
                          /\ entry.notification_sent = FALSE
                          /\ "notification_error" \in DOMAIN entry

\* C8 witness: the fetch of the first of two filters raised, the second
\* filter was still processed, its notification call raised, and the run
\* returned its report
C8_Witness ==
    /\ HasReport
    /\ pc = "idle"
    /\ response.statusCode = 200
    /\ raisedAt = <<"fetch", "notify">>
    /\ results.filter_results[1].status = "error"
    /\ results.filter_results[2].new_listings_count = 1

\* C9: in Lambda a failed durable save makes save_cached_listings, and so
\* find_new_listings, raise to its caller.
C9_LambdaSaveFailureRaises ==
    (is_lambda_environment(env) /\ call.at > 0 /\ call.saved = "none") => call.raised

\* the S3 save of the call failed: the store could not be created or
\* save_json returned False
S3SaveFailed(e, io) == get_s3_storage_raises(e, io) \/ io["put_object"] # "ok"

\* C10: outside Lambda with S3 storage enabled, a failed S3 save ends with the
\* ledger of the call in the local cache file and no exception (the local
\* disk being writable).
C10_S3FailureFallsBackToLocal ==
    (/\ ~is_lambda_environment(env) /\ should_use_s3(env)
     /\ call.at > 0
     /\ S3SaveFailed(env, call.io)
     /\ call.io["local_write"] = "ok") =>
        /\ ~call.raised
        /\ localFile.exists
        /\ localFile.last_updated = call.at
        /\ localFile.listing_ids = call.cached_ids \cup Ids(call.current)

\* a ledger blob that is missing, unreadable, corrupt JSON or wrong-schema
BadBlob(b, readOk) == ~b.exists \/ ~readOk \/ b.json # "ledger"

\* the ledger of the environment cannot be read as a ledger
LedgerUnusable ==
    IF should_use_s3(env)
    THEN \/ get_s3_storage_raises(env, call.io)
         \/ BadBlob(s3Obj, call.io["get_object"] = "ok")
    ELSE BadBlob(localFile, call.io["local_read"] = "ok")

YieldedIds(b, readOk) ==
    IF b.exists /\ readOk /\ b.json \in {"ledger", "ids_string"} THEN b.listing_ids
    ELSE {}

\* the S3 read raised inside the inner try, which sends the load to the
\* local file
S3ReadFellBack ==
    \/ get_s3_storage_raises(env, call.io)
    \/ /\ call.io["get_object"] = "ok"
       /\ s3Obj.exists
       /\ s3Obj.json \in {"not_object", "ids_scalar"}

C12_LedgerIdsWereHandedOver == LedgerIds \subseteq hist.handed

C14_OtherFiltersLedgerUntouched ==
    [][IsCall =>
        \E f \in FilterNames :
            \A g \in FilterNames \ {f} :
                Stored(LedgerOf(g))' = Stored(LedgerOf(g))]_vars

\* C15: after a successful save the listing cache holds the current snapshot
\* of every listing fetched in the call and still holds the previously
\* cached payload of every id that was not fetched.
C15_CacheMergesOverPrior ==
    [][(IsCall /\ call'.saved # "none") =>
        LET before == IF call'.saved = "s3" THEN s3Obj ELSE localFile
            after == IF call'.saved = "s3" THEN s3Obj' ELSE localFile'
            current == call'.current
        IN  /\ \A k \in 1..Len(current) :
                   \E m \in 1..Len(after.listings) :
                       /\ after.listings[m].id = current[k].id
                       /\ \E n \in 1..Len(current) :
                              /\ current[n].id = current[k].id
                              /\ current[n].price = after.listings[m].price
            /\ \A j \in 1..Len(before.listings) :
                   before.listings[j].id \notin Ids(current) =>
                       \E m \in 1..Len(after.listings) :
                           after.listings[m] = before.listings[j]]_vars

\* lambda_handler has returned
Returned == app = "lambda" /\ pc = "idle"

\* C17: with no filter configured lambda_handler returns a failure result (a
\* statusCode other than 200, with an error), never a success response; no
\* filter is processed and no notification is sent, whether or not Telegram
\* is configured.
C17_NoFiltersIsAFailureResult ==
    (Returned /\ filters = <<>>) =>
        /\ "statusCode" \in DOMAIN response
        /\ response.statusCode # 200
        /\ "error" \in DOMAIN response.body
        /\ raisedAt = <<>>
        /\ "summary" \notin DOMAIN response

\* C18: lambda_handler never raises: it returns a response with a statusCode
\* whatever initialization, fetch, notification and summary sending did; with
\* at least one filter and a successful initialization the response has
\* statusCode 200 and carries the run report, with an entry for every filter.
C18_HandlerAlwaysResponds ==
    Returned =>
        /\ "statusCode" \in DOMAIN response
        /\ response.statusCode \in {200, 500}
        /\ filters # <<>> =>
               /\ response.statusCode = 200
               /\ response.body.results = results
               /\ results.total_filters = Len(filters)
               /\ results.successful_filters + results.failed_filters = Len(filters)
               /\ Len(results.filter_results) = Len(filters)

\* C18 witness: the fetch of the first filter raised, the notification call
\* of the second raised, the summary was not delivered, and the handler
\* returned 200 with the report
C18_Witness ==
    /\ Returned
    /\ raisedAt = <<"fetch", "notify">>
    /\ "summary" \in DOMAIN response
    /\ response.summary = "False"
    /\ response.statusCode = 200
    /\ response.body.results.failed_filters = 1

\* C19: the summary notification is sent only when some filter of the run
\* found a new listing, that is a listing whose id the ledger did not hold.
C19_SummaryOnlyWhenSomethingNew ==
    (Returned /\ "summary" \in DOMAIN response) => hist.fresh

\* C20: once a shutdown signal has been handled while a filter of the run was
\* being processed, no further filter of that run is started.
C20_NoFilterStartsAfterSignal ==
    [][(pc = "cli_filter" /\ hist.signal_at > 1) => i' = i]_vars

\* C22: read-your-writes on the ledger: after save_cached_listings(ids,
\* listings) returned without error, the next load_cached_listings of the
\* process returns exactly ids, in local mode and in S3 mode, also when the
\* save went to the local fallback.  (The save of a call is handed
\* cached_ids | current_ids; the next load is the one of the next call, taken
\* here with every read succeeding.)
C22_ReadYourWrites ==
    [][(IsCall /\ call.at > 0 /\ ~call.raised /\ call'.io = IoAllOk) =>
        call'.cached_ids = call.cached_ids \cup Ids(call.current)]_vars

\* C23: the first_seen stored for a listing is fixed when the listing is first
\* recorded: a later call that fetches the same id again and saves leaves the
\* first_seen persisted for that id as it was.
C23_FirstSeenIsFixed ==
    [][(IsCall /\ call'.saved # "none") =>
        LET before == IF call'.saved = "s3" THEN s3Obj ELSE localFile
            after == IF call'.saved = "s3" THEN s3Obj' ELSE localFile'
        IN  \A j \in 1..Len(before.listings), m \in 1..Len(after.listings) :
                after.listings[m].id = before.listings[j].id =>
                    after.listings[m].first_seen = before.listings[j].first_seen]_vars

\* C28: the list find_new_listings returns holds at most one entry per listing
\* id, also when the fetched list holds an id more than once: the number of
\* new listings reported is the number of distinct new ids.
C28_OneEntryPerNewId ==
    /\ \A k, m \in 1..Len(call.new_listings) :
           call.new_listings[k].id = call.new_listings[m].id => k = m
    /\ Len(call.new_listings) = Cardinality(Ids(call.current) \ call.cached_ids)

\* the sum of new_listings_count over the entries of a filter_results list
\* (an entry of a failed filter carries no count)
RECURSIVE SumNewListingsCount(_)
SumNewListingsCount(entries) ==
    IF entries = <<>> THEN 0
    ELSE (IF "new_listings_count" \in DOMAIN Head(entries)
          THEN Head(entries).new_listings_count ELSE 0)
         + SumNewListingsCount(Tail(entries))

\* process_filters has left its loop over n >= 1 filters
ProcessFiltersDone == app = "lambda" /\ pc = "summary" /\ filters # <<>>

\* C25: after process_filters over n >= 1 filters, filter_results holds
\* exactly one entry per filter in the order the filters were supplied,
\* successful_filters + failed_filters = total_filters = n, and
\* total_new_listings is the sum of new_listings_count over the entries.
C25_ReportAddsUp ==
    ProcessFiltersDone =>
        /\ Len(results.filter_results) = Len(filters)
        /\ \A k \in 1..Len(filters) :
               results.filter_results[k].filter_name = filters[k]
        /\ results.total_filters = Len(filters)
        /\ results.successful_filters + results.failed_filters = results.total_filters
        /\ results.total_new_listings = SumNewListingsCount(results.filter_results)

\* C25 witness: two filters, the first failed, the second found two listings
C25_Witness ==
    /\ ProcessFiltersDone
    /\ filters = <<"A", "B">>
    /\ results.filter_results[1].status = "error"
    /\ results.filter_results[2].status = "success"
    /\ results.filter_results[2].new_listings_count = 2
    /\ results.total_new_listings = 2

\* the get of every attempt of the call failed in a way _make_request
\* retries: a status other than 200 (429 included) or a RequestException
EveryAttemptFailed ==
    \A k \in 1..Len(http.gets) :
        http.gets[k] \in {"429", "other_status", "RequestException"}

\* C24: scrape_listings makes at most MAX_RETRIES request attempts per call,
\* makes no further attempt after a 200 response, and when every attempt
\* failed (non-200 status, rate limiting or a request exception) it returns
\* an empty list without raising.
C24_BoundedRetriesThenEmpty ==
    http.pc # "none" =>
        /\ Len(http.gets) <= MAX_RETRIES
        /\ \A k \in 1..Len(http.gets) : http.gets[k] = "200" => k = Len(http.gets)
        /\ (http.pc = "returned" /\ EveryAttemptFailed) =>
               /\ ~http.raised
               /\ http.listings = <<>>
               /\ Len(http.gets) = MAX_RETRIES

\* C24 witness: a rate-limited attempt, a failed request and an error status
\* used up the attempts and the call returned the empty list
C24_Witness ==
    /\ http.pc = "returned"
    /\ http.gets = <<"429", "RequestException", "other_status">>
    /\ http.listings = <<>>
    /\ ~http.raised

\* C26: filter names stay unique: starting from a filter list with distinct
\* names, after any sequence of add_filter and remove_filter calls no two
\* filters share a name; add_filter with a name that already exists returns
\* False and changes neither the in-memory list nor the filters file.
C26_FilterNamesStayUnique ==
    /\ \A k, m \in 1..Len(filters) : filters[k] = filters[m] => k = m
    /\ (ret.op = "add" /\ \E k \in 1..Len(ret.filters_before) :
                               ret.filters_before[k] = ret.name) =>
           /\ ~ret.returned
           /\ filters = ret.filters_before
           /\ filtersFile = ret.file_before

\* C26 witness: add_filter was called with the name of the second of two
\* filters and returned False
C26_Witness ==
    /\ ret.op = "add"
    /\ Len(ret.filters_before) = 2
    /\ ret.name = ret.filters_before[2]
    /\ ~ret.returned
    /\ filters = ret.filters_before

\* C30: when add_filter or remove_filter returns False because saving the
\* filters file failed, the in-memory filter list is the same as before the
\* call.
C30_FailedSaveLeavesListAlone ==
    (ret.op \in {"add", "remove"} /\ ret.io # "ok" /\ ~ret.returned) =>
        filters = ret.filters_before

\* C29: once the shutdown signal handler has run, run_scheduler starts no
\* further scrape run and the loop is bound to end: self.running stays False
\* from then on, whenever after the installation of the handlers the signal
\* was delivered.
C29_NoRunAfterShutdownSignal ==
    [][sched.signalled => (~running' /\ sched'.runs = sched.runs)]_vars

\* the ids run p handed to its save
AllIdsOf(p) == overlap.runs[p].cached_ids \cup Ids(overlap.runs[p].current)

\* run p saved before run q loaded: the two calls did not overlap
Sequential(p, q) ==
    /\ overlap.runs[p].pc = "done"
    /\ overlap.runs[q].pc # "none"
    /\ overlap.runs[p].saved_at < overlap.runs[q].loaded_at

\* runs p and q overlapped and q saved last: each loaded before the other
\* saved
SavedLastOverlapping(p, q) ==
    /\ overlap.runs[p].pc = "done" /\ overlap.runs[q].pc = "done"
    /\ overlap.runs[q].loaded_at < overlap.runs[p].saved_at
    /\ overlap.runs[p].saved_at < overlap.runs[q].saved_at

\* C21: two overlapping runs for the same filter are not mutually excluded
\* and the last write wins: whatever the other run stored in between, a save
\* that stored the ledger leaves exactly the ids of its own run's load and
\* fetch in it, so an id the other run persisted can be gone and a listing
\* can be new to both runs (the witness); with no I/O failure neither happens
\* to runs that do not overlap.
C21_LastWriteWins ==
    \A p \in Runs : \A q \in Runs \ {p} :
        /\ (SavedLastOverlapping(p, q) /\ overlap.runs[q].saved # "none") =>
               LET written == IF overlap.runs[q].saved = "s3" THEN s3Obj ELSE localFile
               IN  written.listing_ids = AllIdsOf(q)
        /\ (Sequential(p, q) /\ faults = 0 /\ overlap.runs[p].saved # "none") =>
               /\ Ids(overlap.runs[p].new_listings)
                      \cap Ids(overlap.runs[q].new_listings) = {}
               /\ overlap.runs[q].pc = "done" => AllIdsOf(p) \subseteq LedgerIds

\* C21 witness: run 2 loaded before run 1 saved and saved after it; id "b",
\* which run 1 persisted, is absent from the ledger after run 2's save, and
\* listing "a" was reported new by both runs
C21_Witness ==
    /\ SavedLastOverlapping(1, 2)
    /\ overlap.runs[1].saved # "none"
    /\ overlap.runs[2].saved # "none"
    /\ "b" \in AllIdsOf(1)
    /\ "b" \notin LedgerIds
    /\ "a" \in Ids(overlap.runs[1].new_listings)
    /\ "a" \in Ids(overlap.runs[2].new_listings)

\* what a load degrades to when the S3 store cannot be created: the local
\* file when it is there and readable, empty otherwise
DegradedTo(local) ==
    IF local \in {"mapping", "empty"} /\ mapper.io["local_read"] = "ok" THEN local
    ELSE "empty"

\* C27: constructing LambdaCarScraper in Lambda mode with S3_BUCKET_NAME
\* unset does not raise: the manufacturer and model loads done while loading
\* the filters degrade to the local file, or to empty.
C27_ConstructsWithoutBucket ==
    (mapper.pc # "none" /\ env.AWS_LAMBDA_FUNCTION_NAME /\ ~env.S3_BUCKET_NAME) =>
        /\ mapper.pc = "constructed"
        /\ mapper.manufacturers # "not_loaded" =>
               mapper.manufacturers = DegradedTo(mapper.files.local_manufacturers)
        /\ mapper.models # "not_loaded" =>
               mapper.models = DegradedTo(mapper.files.local_models)
        /\ mapper.cfg.manufacturer => mapper.manufacturers # "not_loaded"

\* C27 witness: in Lambda mode without a bucket, with MANUFACTURER and MODEL
\* set and the mappings under data/, the scraper was constructed with one
\* filter, its manufacturer translated from the local file
C27_Witness ==
    /\ env.AWS_LAMBDA_FUNCTION_NAME /\ ~env.S3_BUCKET_NAME
    /\ mapper.pc = "constructed"
    /\ mapper.cfg = [format |-> "single", manufacturer |-> TRUE, model |-> TRUE]
    /\ mapper.files.local_manufacturers = "mapping"
    /\ mapper.manufacturers = "mapping"
    /\ mapper.models = "mapping"
    /\ mapper.manufacturer_id
    /\ mapper.filters = 1

====
